---- MODULE Spec2Model ----
(***************************************************************************)
(* A model of app.py: the one-shot reminder queue (user_reminders), the    *)
(* background sweep check_and_send_reminders, the webhook that creates     *)
(* reminders, and the registration of the daily jobs of schedules.json.    *)
(*                                                                         *)
(* Instants are whole seconds since 00:00:00 UTC of day 0.  The webhook    *)
(* runs in a request thread and the sweep in APScheduler's worker thread;  *)
(* each action below is one step between two accesses to state the two     *)
(* threads share (the dict user_reminders, the lists it holds, the clock). *)
(***************************************************************************)
EXTENDS Integers, Sequences, FiniteSets, Bags, TLC

\* ------------------------------------------------------------------ bounds
MaxRequests == 2      \* webhook requests per behaviour
MaxSweeps == 2        \* sweeps started per behaviour
MaxTicks == 1         \* clock advances per behaviour
MaxFailures == 1      \* transport failures per behaviour
MaxDefs == 2          \* definitions in schedules.json
MaxFires == 1         \* firings of daily jobs per behaviour
MaxReloads == 1       \* runs of load_regular_schedules after the one at startup

\* --------------------------------------------------------- time arithmetic
SecondsPerMinute == 60
SecondsPerHour == 3600
SecondsPerDay == 86400

\* timedelta(hours=h)
Hours(h) == h * SecondsPerHour

\* timedelta(days=d)
Days(d) == d * SecondsPerDay

\* datetime.replace(hour=, minute=, second=0, microsecond=0): the date of t
\* kept, the time of day replaced.  It raises ValueError outside 0..23, 0..59.
ReplaceOk(hour, minute) == hour \in 0..23 /\ minute \in 0..59

Replace(t, hour, minute) ==
    (t \div SecondsPerDay) * SecondsPerDay + Hours(hour) + minute * SecondsPerMinute

\* Lines 246-251 of the webhook: the stored instant for local time hour:minute.
RemindUtc(now_utc, offset, hour, minute) ==
    LET remind_utc == Replace(now_utc, hour, minute) - Hours(offset)
    IN  IF remind_utc < now_utc THEN remind_utc + Days(1) ELSE remind_utc

\* ------------------------------------------------------------ text, parsing
\* A string is a sequence of one-character strings.
DigitChars == <<"0", "1", "2", "3", "4", "5", "6", "7", "8", "9">>

IsDigit(c) == \E n \in 1..10 : DigitChars[n] = c

DigitVal(c) == (CHOOSE n \in 1..10 : DigitChars[n] = c) - 1

IsSpace(c) == c \in {" ", "\n", "\t"}

\* str.strip()
RECURSIVE LStrip(_)
LStrip(s) == IF s # <<>> /\ IsSpace(Head(s)) THEN LStrip(Tail(s)) ELSE s

RECURSIVE RStrip(_)
RStrip(s) ==
    IF s # <<>> /\ IsSpace(s[Len(s)]) THEN RStrip(SubSeq(s, 1, Len(s) - 1)) ELSE s

Strip(s) == RStrip(LStrip(s))

RECURSIVE DecimalValue(_)
DecimalValue(s) ==
    IF s = <<>> THEN 0
    ELSE 10 * DecimalValue(SubSeq(s, 1, Len(s) - 1)) + DigitVal(s[Len(s)])

\* int(s) of a str: surrounding whitespace is ignored, an optional sign, then
\* decimal digits; anything else raises ValueError (ok = FALSE).
ParseInt(s) ==
    LET t == Strip(s)
        neg == t # <<>> /\ Head(t) = "-"
        u == IF t # <<>> /\ Head(t) \in {"-", "+"} THEN Tail(t) ELSE t
    IN  IF u # <<>> /\ \A k \in 1..Len(u) : IsDigit(u[k])
        THEN [ok |-> TRUE, val |-> IF neg THEN 0 - DecimalValue(u) ELSE DecimalValue(u)]
        ELSE [ok |-> FALSE, val |-> 0]

\* str.split(":")
RECURSIVE SplitColon(_)
SplitColon(s) ==
    IF \E k \in 1..Len(s) : s[k] = ":"
    THEN LET k == CHOOSE j \in 1..Len(s) : s[j] = ":" /\ \A l \in 1..(j - 1) : s[l] # ":"
         IN  <<SubSeq(s, 1, k - 1)>> \o SplitColon(SubSeq(s, k + 1, Len(s)))
    ELSE <<s>>

\* re.match(r"^\d{2}:\d{2}$", s): in Python "$" matches at the end of the
\* string and also just before a newline that ends the string.
ReMatch(s) ==
    /\ Len(s) \in {5, 6}
    /\ IsDigit(s[1]) /\ IsDigit(s[2]) /\ s[3] = ":" /\ IsDigit(s[4]) /\ IsDigit(s[5])
    /\ Len(s) = 6 => s[6] = "\n"

\* The text HH:MM of an hour and a minute (what the collaborator is asked to
\* output, line 210).
HHMM(h, m) ==
    <<DigitChars[(h \div 10) + 1], DigitChars[(h % 10) + 1], ":",
      DigitChars[(m \div 10) + 1], DigitChars[(m % 10) + 1]>>

\* ------------------------------------------------- the dict user_reminders
\* A dict is a sequence of [k, v] pairs in insertion order; v is the content
\* of the list object stored under k.
EmptyDict == <<>>

HasKey(d, k) == \E n \in 1..Len(d) : d[n].k = k

IndexOf(d, k) == CHOOSE n \in 1..Len(d) : d[n].k = k

Get(d, k) == d[IndexOf(d, k)].v

\* d[k] = v
Put(d, k, v) ==
    IF HasKey(d, k) THEN [d EXCEPT ![IndexOf(d, k)].v = v]
    ELSE Append(d, [k |-> k, v |-> v])

\* ------------------------------------------------------------------- state
VARIABLES
    now,               \* the clock: datetime.now(timezone.utc)
    UTC_OFFSET_HOURS,  \* line 37, fixed at startup
    user_reminders,    \* line 51: the dict from_number -> list of reminders
    sw,                \* the thread of check_and_send_reminders: position and locals
                       \* (calls: the calls of send_whatsapp_message it has made)
    wh,                \* the thread of whatsapp_webhook: position and locals
    sent,              \* the bag of calls twilio_client.messages.create has received
    failed,            \* the calls among them that raised (a transport failure)
    created,           \* the reminders line 256 has appended, with their recipient
    stopped,           \* the reminders that were pending when the process stopped
    count,             \* how many requests, sweeps, firings of daily jobs and reloads so far
    ticks,             \* how many times the clock has advanced
    schedules,         \* the content of schedules.json
    jobs,              \* the cron jobs in the scheduler's job store
    loaded             \* whether load_regular_schedules has run (line 104)

vars == <<now, UTC_OFFSET_HOURS, user_reminders, sw, wh, sent, failed,
          created, stopped, count, ticks, schedules, jobs, loaded>>

schedVars == <<schedules, jobs, loaded>>
clockVars == <<now, ticks>>

Recipients == {"R1", "R2"}

EMERGENCY_CONTACT == "EC"

\* The default of os.getenv("UTC_OFFSET_HOURS", "7").
DefaultOffset == 7

\* ------------------------------------------------------------ list objects
\* The only references to a list object are the one in the dict, the one the
\* sweep iterates (reminders, line 147) and the one the webhook looks up at
\* line 256.  Only line 157 replaces the list stored under a key, sweeps never
\* overlap, and line 254 stores a list only under a key that is not in the
\* dict, hence not in the running sweep's copy of the items: the list the sweep
\* iterates for a recipient is the one the dict holds for it, until line 157
\* detaches it.  So a list object is named by its place: the webhook's
\* reference is "dict" while the list it looked up is still the one stored
\* under from_number, and "detached" once line 157 has replaced it.
NoList == "none"

\* Every reminder in the queue, with its recipient.
Queued(d) ==
    UNION {{[id |-> d[n].v[m].id, to |-> d[n].k,
             time |-> d[n].v[m].time, message |-> d[n].v[m].message] :
                m \in 1..Len(d[n].v)} : n \in 1..Len(d)}

\* ------------------------------------------------------------------ inputs
\* What the language-understanding collaborator returns for a message:
\*   raise     the call raises (network, API error)
\*   badjson   the content is not JSON
\*   notobject the content is JSON but not an object (a list, a number)
\*   null      {"reply": ..., "reminder": null}
\*   reminder  {"reply": ..., "reminder": {"time": time, "message": message}}
Completion(kind, time, message) == [kind |-> kind, time |-> time, message |-> message]

T0900 == <<"0", "9", ":", "0", "0">>
T0800 == <<"0", "8", ":", "0", "0">>
T900 == <<"9", ":", "0", "0">>
T2400 == <<"2", "4", ":", "0", "0">>
T1260 == <<"1", "2", ":", "6", "0">>
T0900NL == <<"0", "9", ":", "0", "0", "\n">>

TimeStrings == {T0900, T0800, T900, T2400, T1260, T0900NL}

Completions ==
    {Completion("raise", <<>>, ""), Completion("badjson", <<>>, ""),
     Completion("notobject", <<>>, ""), Completion("null", <<>>, "")}
    \cup {Completion("reminder", t, IF t = T0800 THEN "walk" ELSE "pill") : t \in TimeStrings}

\* The inputs of the conversion specification: every hour, three minutes, on a grid
\* of instants and offsets.
ConvMinutes == {0, 30, 59}
ConvOffsets == {-12, -5, 0, 7, 14}
ConvSeconds == {0, 1, 1800}
ConvInstants == {Hours(h) + s : h \in 0..23, s \in ConvSeconds}
ConvCompletions == {Completion("reminder", HHMM(h, m), "pill") : h \in 0..23, m \in ConvMinutes}

\* The instant the process of the main specification starts at, and the step of its clock.
StartInstant == Hours(1) + 30 * SecondsPerMinute
TickSeconds == 30 * SecondsPerMinute

\* -------------------------------------------------------------------- Init
SweepIdle ==
    [pc |-> "idle", now_utc |-> 0, items |-> <<>>, u |-> 0, i |-> 0,
     remaining |-> <<>>, di_used |-> 0, calls |-> EmptyBag]

WebhookIdle ==
    [pc |-> "idle", from_number |-> "",
     msg |-> "", remind_utc |-> 0, list |-> NoList, response |-> "none"]

\* open(SCHEDULES_FILE) raises FileNotFoundError (line 92).
NoFile == [exists |-> FALSE, defs |-> <<>>]

Started ==
    /\ user_reminders = EmptyDict
    /\ sw = SweepIdle
    /\ wh = WebhookIdle
    /\ sent = EmptyBag
    /\ failed = {}
    /\ created = {}
    /\ stopped = {}
    /\ count = [requests |-> 0, sweeps |-> 0, fires |-> 0, loads |-> 0]
    /\ ticks = 0

Init ==
    /\ now = StartInstant
    /\ UTC_OFFSET_HOURS = DefaultOffset
    /\ schedules = NoFile
    /\ jobs = {}
    /\ loaded = TRUE
    /\ Started

InitConv ==
    /\ now \in ConvInstants
    /\ UTC_OFFSET_HOURS \in ConvOffsets
    /\ schedules = NoFile
    /\ jobs = {}
    /\ loaded = TRUE
    /\ Started

\* ---------------------------------------------------------------- delivery
\* send_whatsapp_message (lines 110-120): one call of the transport, whose
\* exception is caught and printed.  rem is the reminder the call is for (0:
\* none), kept to tell the calls apart.
Call(to, body, rem) == [to |-> to, body |-> body, rem |-> rem]

send_whatsapp_message(to_number, body, rem) ==
    \E ok \in BOOLEAN :
        /\ ~ok => Cardinality(failed) < MaxFailures
        /\ sent' = sent (+) SetToBag({Call(to_number, body, rem)})
        /\ failed' = IF ok THEN failed ELSE failed \cup {Call(to_number, body, rem)}

\* ------------------------------------------------------------------- clock
\* datetime.now(timezone.utc): a thread reads the clock; time has passed since
\* the last reading, or not.  now is the latest instant read.
ClockReadings == {now + k * TickSeconds : k \in 0..(MaxTicks - ticks)}

Elapsed(t) == (t - now) \div TickSeconds

\* ----------------------------------------------------------------- webhook
\* The requests: every recipient sends every kind of message; R2 asks for
\* reminders at 09:00 only.  emergency: the message holds an emergency keyword
\* (completion is then what the collaborator would return for the message).
Requests ==
    {r \in {[from_number |-> f, emergency |-> FALSE, completion |-> c] :
                f \in Recipients, c \in Completions} :
        r.from_number = "R2" /\ r.completion.kind = "reminder"
            => r.completion.time \in {T0900, T900, T2400}}
    \cup {[from_number |-> f, emergency |-> TRUE, completion |-> c] :
        f \in Recipients, c \in Completions}

\* Lines 167-177: a request arrives while no other is being handled.
Arrives(req) ==
    /\ wh.pc = "idle"
    /\ loaded
    /\ count.requests < MaxRequests
    /\ count' = [count EXCEPT !.requests = @ + 1]

\* The handler has its response_text and is about to return it (lines 277-278).
WebhookReply(response) == [WebhookIdle EXCEPT !.pc = "reply", !.response = response]

\* Lines 180-187: an emergency keyword; one alert, no call of the collaborator.
EmergencyThenKey(req) ==
    /\ Arrives(req)
    /\ req.emergency
    /\ send_whatsapp_message(EMERGENCY_CONTACT, "alert", 0)
    /\ wh' = WebhookReply("emergency")
    /\ user_reminders' = Put(user_reminders, req.from_number, <<>>)
    /\ UNCHANGED <<clockVars, UTC_OFFSET_HOURS, sw, created, stopped, schedVars>>

Emergency(req) ==
    /\ Arrives(req)
    /\ req.emergency
    /\ send_whatsapp_message(EMERGENCY_CONTACT, "alert", 0)
    /\ wh' = WebhookReply("emergency")
    /\ UNCHANGED <<clockVars, UTC_OFFSET_HOURS, user_reminders, sw, created, stopped, schedVars>>

WebhookEmergency == \E req \in Requests : Emergency(req)

\* A failure upstream that would still store a collection for the sender.
UpstreamErrorCreates(req) ==
    /\ Arrives(req)
    /\ ~req.emergency
    /\ req.completion.kind \in {"raise", "badjson", "notobject"}
    /\ wh' = WebhookReply(IF req.completion.kind = "badjson" THEN "wrong" ELSE "confused")
    /\ user_reminders' = Put(user_reminders, req.from_number, <<>>)
    /\ UNCHANGED <<clockVars, UTC_OFFSET_HOURS, sw, sent, failed, created, stopped, schedVars>>

\* Lines 221-235 and 270-275: the call, json.loads or parsed.get raises.
UpstreamError(req) ==
    /\ Arrives(req)
    /\ ~req.emergency
    /\ req.completion.kind \in {"raise", "badjson", "notobject"}
    /\ wh' = WebhookReply(IF req.completion.kind = "badjson" THEN "wrong" ELSE "confused")
    /\ UNCHANGED <<clockVars, UTC_OFFSET_HOURS, user_reminders, sw, sent, failed, created, stopped, schedVars>>

WebhookUpstreamError == \E req \in Requests : UpstreamError(req)

\* The guard of line 242.
TimeAccepted(time_str) == time_str # <<>> /\ ReMatch(time_str)

\* Lines 235-242: no reminder asked for, or a time that line 242 rejects.
NoReminder(req) ==
    /\ Arrives(req)
    /\ ~req.emergency
    /\ \/ req.completion.kind = "null"
       \/ req.completion.kind = "reminder" /\ ~TimeAccepted(req.completion.time)
    /\ wh' = WebhookReply("reply")
    /\ UNCHANGED <<clockVars, UTC_OFFSET_HOURS, user_reminders, sw, sent, failed, created, stopped, schedVars>>

WebhookNoReminder == \E req \in Requests : NoReminder(req)

\* hour, minute = map(int, time_str.split(":")) (line 244) and the range
\* check of datetime.replace (line 247).
ParsedTimeUnchecked(time_str) ==
    LET parts == SplitColon(time_str)
        ok == Len(parts) = 2 /\ ParseInt(parts[1]).ok /\ ParseInt(parts[2]).ok
    IN  [ok |-> ok,
         hour |-> IF ok THEN ParseInt(parts[1]).val ELSE 0,
         minute |-> IF ok THEN ParseInt(parts[2]).val ELSE 0]

ParsedTime(time_str) ==
    LET parts == SplitColon(time_str)
        ok == Len(parts) = 2 /\ ParseInt(parts[1]).ok /\ ParseInt(parts[2]).ok
    IN  [ok |-> ok /\ ReplaceOk(ParseInt(parts[1]).val, ParseInt(parts[2]).val),
         hour |-> IF ok THEN ParseInt(parts[1]).val ELSE 0,
         minute |-> IF ok THEN ParseInt(parts[2]).val ELSE 0]

\* Lines 242-251 for a request that reads the clock at t: the time is
\* accepted and converted.
Convert(req, t) ==
    /\ Arrives(req)
    /\ ~req.emergency
    /\ req.completion.kind = "reminder"
    /\ TimeAccepted(req.completion.time)
    /\ ParsedTime(req.completion.time).ok
    /\ now' = t
    /\ ticks' = ticks + Elapsed(t)
    /\ LET p == ParsedTime(req.completion.time)
       IN  wh' = [WebhookIdle EXCEPT !.pc = "key", !.from_number = req.from_number,
                                     !.msg = req.completion.message,
                                     !.remind_utc = RemindUtc(t, UTC_OFFSET_HOURS,
                                                              p.hour, p.minute)]
    /\ UNCHANGED <<UTC_OFFSET_HOURS, user_reminders, sw, sent, failed, created, stopped, schedVars>>

WebhookConvert == \E req \in Requests : \E t \in ClockReadings : Convert(req, t)

\* Lines 244-247 raise ValueError, caught at line 266.
ConvertError(req) ==
    /\ Arrives(req)
    /\ ~req.emergency
    /\ req.completion.kind = "reminder"
    /\ TimeAccepted(req.completion.time)
    /\ ~ParsedTime(req.completion.time).ok
    /\ wh' = WebhookReply("reply_issue")
    /\ UNCHANGED <<clockVars, UTC_OFFSET_HOURS, user_reminders, sw, sent, failed, created, stopped, schedVars>>

WebhookConvertError == \E req \in Requests : ConvertError(req)

\* Lines 253-254: a recipient not yet in the dict gets an empty list.
WebhookKey ==
    /\ wh.pc = "key"
    /\ user_reminders' = IF HasKey(user_reminders, wh.from_number) THEN user_reminders
                         ELSE Put(user_reminders, wh.from_number, <<>>)
    /\ wh' = [wh EXCEPT !.pc = "get"]
    /\ UNCHANGED <<clockVars, UTC_OFFSET_HOURS, sw, sent, failed, created, stopped, count, schedVars>>

\* Line 256, user_reminders[from_number]: the list object is looked up.
WebhookGet ==
    /\ wh.pc = "get"
    /\ wh' = [wh EXCEPT !.pc = "append", !.list = "dict"]
    /\ UNCHANGED <<clockVars, UTC_OFFSET_HOURS, user_reminders, sw, sent, failed, created, stopped, count,
                   schedVars>>

\* The dict {"time": remind_utc, "message": msg} of line 256; id is its identity.
NewReminder(w, n) == [id |-> n, time |-> w.remind_utc, message |-> w.msg]

\* list.append(rem) on the list the webhook looked up: the list in the dict,
\* or a detached one, which nothing else references.
AppendTo(d, w, rem) ==
    IF w.list = "dict" THEN Put(d, w.from_number, Append(Get(d, w.from_number), rem))
    ELSE d

\* Lines 256-264: .append on the list that was looked up, and the reply.
WebhookAppend ==
    /\ wh.pc = "append"
    /\ LET rem == NewReminder(wh, Cardinality(created) + 1)
       IN  /\ wh' = WebhookReply("reply_set")
           /\ user_reminders' = AppendTo(user_reminders, wh, rem)
           /\ created' = created \cup {[id |-> rem.id, to |-> wh.from_number,
                                        time |-> rem.time, message |-> rem.message]}
    /\ UNCHANGED <<clockVars, UTC_OFFSET_HOURS, sw, sent, failed, stopped, count, schedVars>>

\* Lines 277-278: the response is returned.
WebhookReturn ==
    /\ wh.pc = "reply"
    /\ wh' = WebhookIdle
    /\ UNCHANGED <<clockVars, UTC_OFFSET_HOURS, user_reminders, sw, sent, failed, created, stopped, count,
                   schedVars>>

WebhookStep ==
    \/ WebhookEmergency
    \/ WebhookUpstreamError
    \/ WebhookNoReminder
    \/ WebhookConvert
    \/ WebhookConvertError
    \/ WebhookKey
    \/ WebhookGet
    \/ WebhookAppend
    \/ WebhookReturn

\* ------------------------------------------------------------------- sweep
\* scheduler.add_job(check_and_send_reminders, 'interval', minutes=1), in seconds.
SweepInterval == 60

\* The recipient the sweep is at (user_number, line 147) and the list it is
\* iterating (reminders), which is the list the dict holds for that recipient.
SweepUser(s) == s.items[s.u]
SweepList(s) == Get(user_reminders, SweepUser(s))

\* Lines 146-147: the interval job starts, reads the clock and copies the
\* (key, list) pairs, list(user_reminders.items()); with no key the loop body
\* never runs and the sweep returns.
SweepStartAnytime ==
    \E t \in ClockReadings :
        /\ loaded
        /\ count.sweeps < MaxSweeps
        /\ now' = t
        /\ ticks' = ticks + Elapsed(t)
        /\ sw' = IF user_reminders = EmptyDict THEN SweepIdle
                 ELSE [SweepIdle EXCEPT
                          !.pc = "scan", !.now_utc = t,
                          !.items = [n \in 1..Len(user_reminders) |-> user_reminders[n].k],
                          !.u = 1, !.i = 1]
        /\ count' = [count EXCEPT !.sweeps = @ + 1]
        /\ UNCHANGED <<UTC_OFFSET_HOURS, user_reminders, wh, sent, failed, created, stopped, schedVars>>

SweepStart ==
    \E t \in ClockReadings :
        /\ sw.pc = "idle"
        /\ loaded
        /\ count.sweeps < MaxSweeps
        /\ now' = t
        /\ ticks' = ticks + Elapsed(t)
        /\ sw' = IF user_reminders = EmptyDict THEN SweepIdle
                 ELSE [SweepIdle EXCEPT
                          !.pc = "scan", !.now_utc = t,
                          !.items = [n \in 1..Len(user_reminders) |-> user_reminders[n].k],
                          !.u = 1, !.i = 1]
        /\ count' = [count EXCEPT !.sweeps = @ + 1]
        /\ UNCHANGED <<UTC_OFFSET_HOURS, user_reminders, wh, sent, failed, created, stopped, schedVars>>

\* Lines 149-153: the next reminder of the list is due; it is sent.
SweepDue ==
    /\ sw.pc = "scan"
    /\ sw.i <= Len(SweepList(sw))
    /\ LET rem == SweepList(sw)[sw.i]
       IN  /\ rem.time <= sw.now_utc
           /\ send_whatsapp_message(SweepUser(sw), rem.message, rem.id)
           /\ sw' = [sw EXCEPT !.pc = "print", !.i = @ + 1,
                                !.calls = @ (+) SetToBag({Call(SweepUser(sw), rem.message, rem.id)})]
    /\ UNCHANGED <<clockVars, UTC_OFFSET_HOURS, user_reminders, wh, created, stopped, count, schedVars>>

\* Lines 149-150, 155-156: the next reminder is not due; it is kept.
SweepNotDueSnoozes ==
    /\ sw.pc = "scan"
    /\ sw.i <= Len(SweepList(sw))
    /\ LET rem == SweepList(sw)[sw.i]
       IN  /\ rem.time > sw.now_utc
           /\ sw' = [sw EXCEPT !.i = @ + 1,
                                !.remaining = Append(@, [rem EXCEPT !.time = @ + Days(1)])]
    /\ UNCHANGED <<clockVars, UTC_OFFSET_HOURS, user_reminders, wh, sent, failed, created, stopped, count, schedVars>>

SweepNotDue ==
    /\ sw.pc = "scan"
    /\ sw.i <= Len(SweepList(sw))
    /\ LET rem == SweepList(sw)[sw.i]
       IN  /\ rem.time > sw.now_utc
           /\ sw' = [sw EXCEPT !.i = @ + 1, !.remaining = Append(@, rem)]
    /\ UNCHANGED <<clockVars, UTC_OFFSET_HOURS, user_reminders, wh, sent, failed, created, stopped, count, schedVars>>

\* Line 149: the list iterator is exhausted.
SweepScanEnd ==
    /\ sw.pc = "scan"
    /\ sw.i > Len(SweepList(sw))
    /\ sw' = [sw EXCEPT !.pc = "assign"]
    /\ UNCHANGED <<clockVars, UTC_OFFSET_HOURS, user_reminders, wh, sent, failed, created, stopped, count, schedVars>>

\* Line 154 -> line 132: print_current_reminders starts iterating
\* user_reminders.items(); the iterator remembers the size of the dict.
SweepPrintBegin ==
    /\ sw.pc = "print"
    /\ sw' = [sw EXCEPT !.pc = "printing", !.di_used = Len(user_reminders)]
    /\ UNCHANGED <<clockVars, UTC_OFFSET_HOURS, user_reminders, wh, sent, failed, created, stopped, count, schedVars>>

\* Lines 132-142: the iteration ends with the dict the size it had.
SweepPrintReturn ==
    /\ sw.pc = "printing"
    /\ Len(user_reminders) = sw.di_used
    /\ sw' = [sw EXCEPT !.pc = "scan", !.di_used = 0]
    /\ UNCHANGED <<clockVars, UTC_OFFSET_HOURS, user_reminders, wh, sent, failed, created, stopped, count, schedVars>>

\* Line 132: a key was inserted meanwhile; the iterator raises RuntimeError
\* ("dictionary changed size during iteration"), which nothing in
\* check_and_send_reminders catches: this run of the job ends at line 154.
SweepPrintRaise ==
    /\ sw.pc = "printing"
    /\ Len(user_reminders) # sw.di_used
    /\ sw' = SweepIdle
    /\ UNCHANGED <<clockVars, UTC_OFFSET_HOURS, user_reminders, wh, sent, failed, created, stopped, count, schedVars>>

\* Line 157: user_reminders[user_number] = remaining; then the next recipient
\* (line 148), or the sweep returns.
SweepAssign ==
    /\ sw.pc = "assign"
    /\ user_reminders' = Put(user_reminders, SweepUser(sw), sw.remaining)
    /\ wh' = IF wh.list = "dict" /\ wh.from_number = SweepUser(sw)
             THEN [wh EXCEPT !.list = "detached"] ELSE wh
    /\ sw' = IF sw.u < Len(sw.items)
             THEN [sw EXCEPT !.pc = "scan", !.u = @ + 1, !.i = 1, !.remaining = <<>>]
             ELSE SweepIdle
    /\ UNCHANGED <<clockVars, UTC_OFFSET_HOURS, sent, failed, created, stopped, count, schedVars>>

SweepStep ==
    \/ SweepStart
    \/ SweepDue
    \/ SweepNotDue
    \/ SweepScanEnd
    \/ SweepPrintBegin
    \/ SweepPrintReturn
    \/ SweepPrintRaise
    \/ SweepAssign

\* ---------------------------------------------------------- recurring jobs
\* An entry of "global_daily_reminders": a mapping whose keys may be absent,
\* or something that is not a mapping.  active is "true", "false" or "absent".
NoTime == [present |-> FALSE, val |-> <<>>]
NoMessage == [present |-> FALSE, val |-> ""]
Given(v) == [present |-> TRUE, val |-> v]

Definition(active, time_utc, message) ==
    [mapping |-> TRUE, active |-> active, time_utc |-> time_utc, message |-> message]

NotAMapping == [mapping |-> FALSE, active |-> "absent", time_utc |-> NoTime, message |-> NoMessage]

\* The length of the message prefix in a job id (line 84).
IdLength == 20

\* f"daily_{sched['message'][:20]}"
JobId(message) ==
    "daily_" \o SubSeq(message, 1, IF Len(message) < IdLength THEN Len(message) ELSE IdLength)

\* hour, minute, second = map(int, time_utc_str.split(":")) (line 75) and the
\* ranges the cron trigger accepts for them (line 76).
ParsedCron(time_utc_str) ==
    LET parts == SplitColon(time_utc_str)
        ok == Len(parts) = 3 /\ \A k \in 1..3 : ParseInt(parts[k]).ok
        val == [k \in 1..3 |-> IF ok THEN ParseInt(parts[k]).val ELSE 0]
    IN  [ok |-> ok /\ val[1] \in 0..23 /\ val[2] \in 0..59 /\ val[3] \in 0..59,
         hour |-> val[1], minute |-> val[2], second |-> val[3]]

\* scheduler.add_job(..., id=, replace_existing=True): a job with the same id
\* is replaced.
add_job_keeping(js, job) == js \cup {job}

add_job(js, job) == {j \in js : j.id # job.id} \cup {job}

\* The loop of lines 67-90 from entry n on, js being the jobs so far.  An
\* entry that is not a mapping raises at line 68, outside the inner try: the
\* handler of line 94 ends the loop.
RECURSIVE LoadFromIgnoringActive(_, _, _)
LoadFromIgnoringActive(defs, n, js) ==
    IF n > Len(defs) THEN js
    ELSE LET sched == defs[n]
             cron == ParsedCron(sched.time_utc.val)
         IN  IF ~sched.mapping THEN js
             ELSE IF ~sched.time_utc.present \/ sched.time_utc.val = <<>>
                  THEN LoadFromIgnoringActive(defs, n + 1, js)
             ELSE IF ~cron.ok \/ ~sched.message.present
                  THEN LoadFromIgnoringActive(defs, n + 1, js)
             ELSE LoadFromIgnoringActive(defs, n + 1,
                           add_job(js, [id |-> JobId(sched.message.val),
                                        hour |-> cron.hour, minute |-> cron.minute,
                                        second |-> cron.second,
                                        message |-> sched.message.val]))

RECURSIVE LoadFrom(_, _, _)
LoadFrom(defs, n, js) ==
    IF n > Len(defs) THEN js
    ELSE LET sched == defs[n]
             cron == ParsedCron(sched.time_utc.val)
         IN  IF ~sched.mapping THEN js
             ELSE IF sched.active # "true" THEN LoadFrom(defs, n + 1, js)
             ELSE IF ~sched.time_utc.present \/ sched.time_utc.val = <<>>
                  THEN LoadFrom(defs, n + 1, js)
             ELSE IF ~cron.ok \/ ~sched.message.present THEN LoadFrom(defs, n + 1, js)
             ELSE LoadFrom(defs, n + 1,
                           add_job(js, [id |-> JobId(sched.message.val),
                                        hour |-> cron.hour, minute |-> cron.minute,
                                        second |-> cron.second,
                                        message |-> sched.message.val]))

\* Line 104: load_regular_schedules runs once, when the module is executed.
load_regular_schedules ==
    /\ ~loaded
    /\ jobs' = IF schedules.exists THEN LoadFrom(schedules.defs, 1, jobs) ELSE jobs
    /\ loaded' = TRUE
    /\ UNCHANGED <<clockVars, UTC_OFFSET_HOURS, user_reminders, sw, wh, sent, failed, created,
                   stopped, count, schedules>>

\* load_regular_schedules is run again on the same file, the scheduler
\* keeping its jobs (a reload).
Reload ==
    /\ loaded
    /\ count.loads < MaxReloads
    /\ jobs' = IF schedules.exists THEN LoadFrom(schedules.defs, 1, jobs) ELSE jobs
    /\ count' = [count EXCEPT !.loads = @ + 1]
    /\ UNCHANGED <<clockVars, UTC_OFFSET_HOURS, user_reminders, sw, wh, sent, failed, created,
                   stopped, schedules, loaded>>

\* Lines 97-101, run by a daily job when its time of day comes.
send_regular_reminder(message) == send_whatsapp_message(EMERGENCY_CONTACT, message, 0)

JobFires ==
    /\ loaded
    /\ count.fires < MaxFires
    /\ \E j \in jobs : send_regular_reminder(j.message)
    /\ count' = [count EXCEPT !.fires = @ + 1]
    /\ UNCHANGED <<clockVars, UTC_OFFSET_HOURS, user_reminders, sw, wh, created, stopped, schedVars>>

\* The files of the schedule specification: up to MaxDefs entries, each one of these.
C0800 == <<"0", "8", ":", "0", "0", ":", "0", "0">>
C2030 == <<"2", "0", ":", "3", "0", ":", "0", "0">>
C0800Short == <<"0", "8", ":", "0", "0">>
C2500 == <<"2", "5", ":", "0", "0", ":", "0", "0">>

Definitions ==
    {Definition("true", Given(C0800), Given("Take morning medicine")),
     Definition("true", Given(C2030), Given("Take morning medicine with food")),
     Definition("true", Given(C2030), Given("Drink water")),
     Definition("false", Given(C0800), Given("Stretch")),
     Definition("absent", Given(C0800), Given("Call family")),
     Definition("true", NoTime, Given("Check blood pressure")),
     Definition("true", Given(<<>>), Given("Evening walk")),
     Definition("true", Given(C0800Short), Given("Eat breakfast")),
     Definition("true", Given(C2500), Given("Sleep")),
     Definition("true", Given(C0800), NoMessage),
     NotAMapping}

ScheduleFiles ==
    {NoFile} \cup {[exists |-> TRUE, defs |-> d] :
                      d \in UNION {[1..n -> Definitions] : n \in 0..MaxDefs}}

InitSched ==
    /\ now = StartInstant
    /\ UTC_OFFSET_HOURS = DefaultOffset
    /\ schedules \in ScheduleFiles
    /\ jobs = {}
    /\ loaded = FALSE
    /\ Started

\* ------------------------------------------------------------- environment
\* Whether the transport has been called for reminder id.
Delivered(id) == \E c \in BagToSet(sent) : c.rem = id

\* The reminders whose creation has returned and that are not yet delivered:
\* those in the queue for which the transport has not been called, but for
\* the one a request that has not returned yet has just appended.
Pending ==
    {r \in Queued(user_reminders) :
        /\ ~Delivered(r.id)
        /\ ~(wh.pc = "reply" /\ wh.response = "reply_set" /\ r.id = Cardinality(created))}

\* The process stops at any point and starts again: the module is executed
\* afresh (line 51: user_reminders = {}), both threads are gone.
RestartKeepsQueue ==
    /\ sw' = SweepIdle
    /\ wh' = WebhookIdle
    /\ stopped' = stopped \cup Pending
    /\ UNCHANGED <<clockVars, UTC_OFFSET_HOURS, user_reminders, sent, failed, created, count,
                   schedVars>>

Restart ==
    /\ user_reminders' = EmptyDict
    /\ sw' = SweepIdle
    /\ wh' = WebhookIdle
    /\ stopped' = stopped \cup Pending
    /\ UNCHANGED <<clockVars, UTC_OFFSET_HOURS, sent, failed, created, count, schedVars>>

Next ==
    \/ WebhookStep
    \/ SweepStep

Spec == Init /\ [][Next]_vars

\* The same with restarts of the process.
NextRestart ==
    \/ WebhookStep
    \/ SweepStep
    \/ Restart

SpecRestart == Init /\ [][NextRestart]_vars

\* The conversion specification: one request, for any local time HH:MM, at any of the
\* instants and offsets of InitConv.
ConvRequests ==
    {[from_number |-> "R1", emergency |-> FALSE, completion |-> c] : c \in ConvCompletions}

WebhookConvertAny ==
    \E req \in ConvRequests :
        /\ count.requests = 0
        /\ Convert(req, now)

NextConv ==
    \/ WebhookConvertAny
    \/ WebhookKey
    \/ WebhookGet
    \/ WebhookAppend
    \/ WebhookReturn

SpecConv == InitConv /\ [][NextConv]_vars

\* The schedule specification: the file is loaded at startup, then daily jobs fire.
NextSched ==
    \/ load_regular_schedules
    \/ JobFires

SpecSched == InitSched /\ [][NextSched]_vars

\* The same with reloads of the file.
NextReload ==
    \/ load_regular_schedules
    \/ Reload
    \/ JobFires

SpecReload == InitSched /\ [][NextReload]_vars

\* ------------------------------------------------------------------ claims
\* The identities of a set of reminders.
Ids(rs) == {r.id : r \in rs}

\* How many times the transport was called for reminder r.
TimesDelivered(r) == CopiesIn(Call(r.to, r.message, r.id), sent)

\* A step that ends a run of check_and_send_reminders, by its return or by an
\* exception.
SweepEnds == sw.pc # "idle" /\ sw'.pc = "idle"

\* C1: for every offset, instant now and valid local time HH:MM, the fire_at
\* stored for the new reminder is strictly later than now.  (In SpecConv the
\* clock is read once, by the conversion: now is the instant it captured.)
C1_FireAtStrictlyLater == \A r \in created : r.time > now

\* C2: for every offset, instant now and valid local time HH:MM, the fire_at
\* stored for the new reminder is at most now + 24 hours.
C2_FireAtWithinADay == \A r \in created : r.time <= now + Days(1)

\* C3: a sweep that captured now_utc replaces a recipient's list by exactly its
\* reminders with fire_at > now_utc, in order, has called delivery exactly
\* once for each reminder it removes, and when it ends no reminder it called
\* delivery for is still in the queue.
C3_SweepRemovesExactlyDue ==
    [][/\ (sw.pc = "assign" /\ sw' # sw) =>
            LET old == Get(user_reminders, SweepUser(sw))
                new == Get(user_reminders', SweepUser(sw))
            IN  /\ new = SelectSeq(old, LAMBDA r : r.time > sw.now_utc)
                /\ \A k \in 1..Len(old) :
                      old[k].time <= sw.now_utc =>
                          CopiesIn(Call(SweepUser(sw), old[k].message, old[k].id), sw.calls) = 1
       /\ SweepEnds =>
            \A c \in BagToSet(sw.calls) : c.rem \notin Ids(Queued(user_reminders'))]_vars

\* C4: over any execution, each reminder is handed to the delivery function
\* at most once.
C4_DeliveredAtMostOnce == \A r \in created : TimesDelivered(r) <= 1

\* C5: when neither a sweep nor a request is in progress, the queue holds
\* exactly the created reminders that have not been delivered, each once.
C5_NoEntryLostOrDuplicated ==
    (sw.pc = "idle" /\ wh.pc = "idle") =>
        /\ Queued(user_reminders) = {r \in created : ~Delivered(r.id)}
        /\ \A n \in 1..Len(user_reminders) :
              \A k, l \in 1..Len(user_reminders[n].v) :
                  user_reminders[n].v[k].id = user_reminders[n].v[l].id => k = l

C7_CreatedIsDeliveredOrQueued ==
    \A r \in created : Delivered(r.id) \/ r \in Queued(user_reminders)

\* C8: when a sweep in which a delivery failed ends, the reminder whose
\* delivery failed is no longer in the queue.
C8_FailedReminderRemoved ==
    [][SweepEnds =>
          \A c \in failed : BagIn(c, sw.calls) => c.rem \notin Ids(Queued(user_reminders'))]_vars

\* The strict two-digit pattern HH:MM: five characters, digits around a colon.
IsHHMM(s) ==
    /\ Len(s) = 5
    /\ IsDigit(s[1]) /\ IsDigit(s[2]) /\ s[3] = ":" /\ IsDigit(s[4]) /\ IsDigit(s[5])

\* C9: a request whose time string is not of the form HH:MM never enters the
\* creation path (lines 244-259), which inserts the recipient's key and
\* appends a reminder.
C9_MalformedTimeCreatesNothing ==
    [][\A req \in Requests :
          (req.completion.kind = "reminder" /\ ~IsHHMM(req.completion.time)) =>
              \A t \in ClockReadings : ~Convert(req, t)]_vars

\* A well-formed time_utc: HH:MM:SS, two digits each, a time of day.
IsHHMMSS(s) ==
    /\ Len(s) = 8
    /\ \A k \in {1, 2, 4, 5, 7, 8} : IsDigit(s[k])
    /\ s[3] = ":" /\ s[6] = ":"
    /\ DecimalValue(SubSeq(s, 1, 2)) \in 0..23
    /\ DecimalValue(SubSeq(s, 4, 5)) \in 0..59
    /\ DecimalValue(SubSeq(s, 7, 8)) \in 0..59

\* C10: after load_regular_schedules on a file whose entries are all
\* mappings, every definition that is active, has a well-formed time_utc and
\* a message has a daily job at that time of day that delivers that message.
C10_ActiveDefinitionsRegistered ==
    (loaded /\ \A m \in 1..Len(schedules.defs) : schedules.defs[m].mapping) =>
        \A n \in 1..Len(schedules.defs) :
            LET d == schedules.defs[n]
            IN  (/\ d.mapping /\ d.active = "true" /\ d.message.present
                 /\ d.time_utc.present /\ IsHHMMSS(d.time_utc.val)) =>
                    \E j \in jobs :
                        /\ j.message = d.message.val
                        /\ j.hour = DecimalValue(SubSeq(d.time_utc.val, 1, 2))
                        /\ j.minute = DecimalValue(SubSeq(d.time_utc.val, 4, 5))
                        /\ j.second = DecimalValue(SubSeq(d.time_utc.val, 7, 8))

\* C11: running load_regular_schedules again on the same definitions leaves
\* the set of jobs as it was after the first run, with one job per job id.
C11_ReloadIsIdempotent ==
    [][count'.loads > count.loads =>
          /\ jobs' = jobs
          /\ \A j1, j2 \in jobs' : j1.id = j2.id => j1 = j2]_vars

\* The file has been loaded again, and it has two definitions with the same
\* job id, of which one is registered.
C11_Witness ==
    /\ count.loads > 0
    /\ jobs # {}
    /\ \E m, n \in 1..Len(schedules.defs) :
          /\ m < n
          /\ schedules.defs[m].message.present /\ schedules.defs[n].message.present
          /\ schedules.defs[m].message.val # schedules.defs[n].message.val
          /\ JobId(schedules.defs[m].message.val) = JobId(schedules.defs[n].message.val)
          /\ \E j \in jobs : j.id = JobId(schedules.defs[n].message.val)

\* A definition with a well-formed time_utc and a message; an entry that is
\* malformed: not a mapping, or a mapping without one of these.
WellFormed(d) ==
    /\ d.mapping
    /\ d.time_utc.present /\ IsHHMMSS(d.time_utc.val)
    /\ d.message.present

\* C12: after load_regular_schedules, every active well-formed definition
\* that comes after a malformed entry is registered: there is a job with its
\* id.
C12_MalformedEntryAbortsNothing ==
    loaded =>
        \A m, n \in 1..Len(schedules.defs) :
            (/\ m < n
             /\ ~WellFormed(schedules.defs[m])
             /\ WellFormed(schedules.defs[n]) /\ schedules.defs[n].active = "true") =>
                \E j \in jobs : j.id = JobId(schedules.defs[n].message.val)

Inactive(d) ==
    /\ d.mapping
    /\ \/ d.active \in {"false", "absent"}
       \/ ~d.time_utc.present
       \/ d.time_utc.val = <<>>

\* C14: after load_regular_schedules no job delivers the message of a
\* definition that is inactive or has no time_utc (unless another definition
\* of the file, which is neither, carries the same message).
C14_InactiveNeverRegistered ==
    loaded =>
        \A n \in 1..Len(schedules.defs) :
            LET d == schedules.defs[n]
            IN  (/\ Inactive(d) /\ d.message.present
                 /\ \A m \in 1..Len(schedules.defs) :
                       ~Inactive(schedules.defs[m]) => schedules.defs[m].message # d.message) =>
                    \A j \in jobs : j.message # d.message.val

\* The file has been loaded: it holds a definition that is inactive or without
\* time_utc, and one that is registered.
C14_Witness ==
    /\ loaded
    /\ jobs # {}
    /\ \E n \in 1..Len(schedules.defs) :
          Inactive(schedules.defs[n]) /\ schedules.defs[n].message.present

\* C15: every reminder in the queue has the recipient, the fire_at and the
\* message it was created with.
C15_QueuedReminderImmutable == \A r \in Queued(user_reminders) : r \in created

\* After two creations a sweep has kept a reminder that is not due and is
\* about to store its list (line 157).
C15_Witness ==
    /\ sw.pc = "assign"
    /\ sw.remaining # <<>>
    /\ Cardinality(created) = 2

\* The fallback replies of lines 272 and 275.
Fallbacks == {"wrong", "confused"}

IsTimeOfDay(s) ==
    /\ IsHHMM(s)
    /\ DecimalValue(SubSeq(s, 1, 2)) <= 23
    /\ DecimalValue(SubSeq(s, 4, 5)) <= 59

InvalidTimeRequests ==
    {req \in Requests : /\ req.completion.kind = "reminder"
                        /\ IsHHMM(req.completion.time)
                        /\ ~IsTimeOfDay(req.completion.time)}

\* C17: a request whose time string has the form HH:MM but is no time of day
\* never enters the creation path, and the step that answers it (with the
\* reply of line 268) leaves the queue, keys included, unchanged and creates
\* no reminder.
C17_InvalidTimeOfDayCreatesNothing ==
    [][/\ (wh.pc = "idle" /\ wh'.pc = "reply" /\ wh'.response = "reply_issue") =>
              user_reminders' = user_reminders /\ created' = created
       /\ (wh.pc = "idle" /\ wh'.pc = "key") =>
              \A req \in InvalidTimeRequests : \A t \in ClockReadings : ~Convert(req, t)]_vars

\* The webhook is about to return the reply of line 268 while the queue holds
\* one recipient, with a reminder.
C17_Witness ==
    /\ wh.pc = "reply"
    /\ wh.response = "reply_issue"
    /\ Len(user_reminders) = 1
    /\ Queued(user_reminders) # {}

\* C18: the append of a creation for recipient R (line 256) puts exactly one
\* reminder, with the requested message and the converted instant, at the end
\* of R's collection in the queue, and leaves the recipients of the queue,
\* the collections of the others and the earlier entries of R's unchanged.
C18_CreationAppendsOne ==
    [][(wh.pc = "append" /\ wh'.pc = "reply") =>
          /\ Len(user_reminders') = Len(user_reminders)
          /\ \A n \in 1..Len(user_reminders) :
                /\ user_reminders'[n].k = user_reminders[n].k
                /\ user_reminders[n].k # wh.from_number =>
                      user_reminders'[n].v = user_reminders[n].v
                /\ user_reminders[n].k = wh.from_number =>
                      /\ Len(user_reminders'[n].v) = Len(user_reminders[n].v) + 1
                      /\ SubSeq(user_reminders'[n].v, 1, Len(user_reminders[n].v))
                            = user_reminders[n].v
                      /\ user_reminders'[n].v[Len(user_reminders'[n].v)].message = wh.msg
                      /\ user_reminders'[n].v[Len(user_reminders'[n].v)].time = wh.remind_utc]_vars

\* The requests whose message holds an emergency keyword.
EmergencyRequests == {req \in Requests : req.emergency}

\* C19: a message with an emergency keyword never enters the creation path,
\* whatever reminder the rest of it asks for, and the step that answers it
\* sends exactly one alert, to the emergency contact, leaves the queue
\* unchanged and creates no reminder.
C19_EmergencyLeavesQueue ==
    [][/\ (wh.pc = "idle" /\ wh'.pc = "reply" /\ wh'.response = "emergency") =>
              /\ user_reminders' = user_reminders
              /\ created' = created
              /\ sent' = sent (+) SetToBag({Call(EMERGENCY_CONTACT, "alert", 0)})
       /\ (wh.pc = "idle" /\ wh'.pc = "key") =>
              \A req \in EmergencyRequests : \A t \in ClockReadings : ~Convert(req, t)]_vars

\* The webhook is about to return the emergency reply; the alert has been
\* sent and the queue holds a reminder.
C19_Witness ==
    /\ wh.pc = "reply"
    /\ wh.response = "emergency"
    /\ BagIn(Call(EMERGENCY_CONTACT, "alert", 0), sent)
    /\ Queued(user_reminders) # {}

====
